---- MODULE Spec2Model ----
(***************************************************************************)
(* Model of clean_duplicates.py: one pass over a delimited text file that  *)
(* writes the rows whose key (whole row, or one selected field) has not    *)
(* been seen before (or, with invert, the rows whose key has been seen).   *)
(*                                                                         *)
(* Text is modelled at character level: a field and a line are sequences   *)
(* of one-character strings, a row is a sequence of fields.  The csv       *)
(* reader and writer are modelled for fields that hold no quote, delimiter *)
(* or line break (QUOTE_MINIMAL then adds no quotes), with quoting = 0.    *)
(* The input file always holds a header line.                              *)
(*                                                                         *)
(* An output file is modelled as the sequence of rows handed to its        *)
(* writer.  The buffers of the file objects are not modelled: when no      *)
(* distinct error dump is named, line 98 opens the primary output a second *)
(* time for writing, which truncates whatever the first handle has already *)
(* flushed (a header longer than the buffer); that effect on the bytes of  *)
(* the file is outside this model.                                         *)
(***************************************************************************)
EXTENDS Integers, Sequences, FiniteSets, TLC

\* ------------------------------------------------------------------ bounds
\* Number of data lines of the input file.
MaxRows == 3
\* Length of the header lines the delimiter sniffer is tried on.
MaxHdrLen == 3

\* -------------------------------------------------------------- characters
TAB == "\t"
BSL == "\\"
NL == "\n"
COMMA == ","

\* column=None (the default of the -c option).
NoneTok == <<"None">>

RECURSIVE Concat(_)
\* The concatenation of a sequence of sequences.
Concat(ss) == IF ss = <<>> THEN <<>> ELSE Head(ss) \o Concat(Tail(ss))

\* Python's  needle in hay  on strings.
Contains(hay, needle) ==
    \E i \in 0..(Len(hay) - Len(needle)) :
        \A j \in 1..Len(needle) : hay[i + j] = needle[j]

RECURSIVE Split(_, _)
\* The fields of a line that holds at least one field.
Split(line, d) ==
    IF \E i \in 1..Len(line) : line[i] = d
    THEN LET i == CHOOSE k \in 1..Len(line) :
                      line[k] = d /\ \A m \in 1..(k - 1) : line[m] # d
         IN  <<SubSeq(line, 1, i - 1)>> \o Split(SubSeq(line, i + 1, Len(line)), d)
    ELSE <<line>>

\* csv.reader: one record of a line. A blank line is the empty row [], the
\* line "" (two quotes) is the row of one empty field.
ReadRecord(line, d) ==
    IF line = <<>> THEN <<>>
    ELSE IF line = <<"\"", "\"">> THEN << <<>> >>
    ELSE Split(line, d)

RECURSIVE Join(_, _)
Join(row, d) ==
    IF Len(row) = 0 THEN <<>>
    ELSE IF Len(row) = 1 THEN row[1]
    ELSE row[1] \o <<d>> \o Join(Tail(row), d)

\* csv.writer.writerow, without the line terminator: the empty row is an
\* empty line, a single empty field is written quoted.
WriteRecord(row, d) ==
    IF row = << <<>> >> THEN <<"\"", "\"">> ELSE Join(row, d)

\* ------------------------------------------------------ get_file_delimiter
\* repr() of a str, without the enclosing quotes.
ReprChar(c) == IF c = TAB THEN <<BSL, "t">>
               ELSE IF c = BSL THEN <<BSL, BSL>>
               ELSE IF c = NL THEN <<BSL, "n">>
               ELSE <<c>>

ReprStr(s) == <<"'">> \o Concat([i \in 1..Len(s) |-> ReprChar(s[i])]) \o <<"'">>

RECURSIVE ReprItems(_)
ReprItems(row) ==
    IF Len(row) = 0 THEN <<>>
    ELSE IF Len(row) = 1 THEN ReprStr(row[1])
    ELSE ReprStr(row[1]) \o <<COMMA, " ">> \o ReprItems(Tail(row))

\* str(list of str)
StrOfList(row) == <<"[">> \o ReprItems(row) \o <<"]">>

\* The candidates in the order they are tried, as written in the source:
\* the second one is the two characters backslash, t.
Candidates == << <<"|">>, <<BSL, "t">>, <<";">>, <<COMMA>> >>

\* i.replace('\\t', '\t')
ReplaceTab(cand) == IF cand = <<BSL, "t">> THEN TAB ELSE cand[1]

\* The for loop of get_file_delimiter over the str() of the header.
FirstCandidate(text) ==
    IF \E i \in 1..Len(Candidates) : Contains(text, Candidates[i])
    THEN LET i == CHOOSE k \in 1..Len(Candidates) :
                      /\ Contains(text, Candidates[k])
                      /\ \A m \in 1..(k - 1) : ~Contains(text, Candidates[m])
         IN  ReplaceTab(Candidates[i])
    ELSE NL

\* The header is read with the default dialect (comma) and turned into the
\* str() of the list of its fields.
get_file_delimiter(headerLine) ==
    FirstCandidate(StrOfList(ReadRecord(headerLine, COMMA)))

\* -------------------------------------------------------- get_header_index
DigitChars == <<"0", "1", "2", "3", "4", "5", "6", "7", "8", "9">>
IsDigit(c) == \E i \in 1..Len(DigitChars) : DigitChars[i] = c
DigitValue(c) == (CHOOSE i \in 1..Len(DigitChars) : DigitChars[i] = c) - 1

Unsigned(tok) == IF Len(tok) > 0 /\ tok[1] \in {"-", "+"} THEN Tail(tok) ELSE tok

\* int(column) succeeds (no ValueError).
IsIntLiteral(tok) ==
    /\ tok # NoneTok
    /\ Len(Unsigned(tok)) > 0
    /\ \A i \in 1..Len(Unsigned(tok)) : IsDigit(Unsigned(tok)[i])

RECURSIVE DigitsValue(_)
DigitsValue(ds) ==
    IF ds = <<>> THEN 0
    ELSE 10 * DigitsValue(SubSeq(ds, 1, Len(ds) - 1)) + DigitValue(ds[Len(ds)])

\* int(column)
IntOf(tok) ==
    IF Len(tok) > 0 /\ tok[1] = "-" THEN 0 - DigitsValue(Unsigned(tok))
    ELSE DigitsValue(Unsigned(tok))

\* if column:  (None and the empty string are false)
Truthy(tok) == tok # NoneTok /\ tok # <<>>

\* The resolved column: None, an int, or the token left as it was (a str).
ColNone == [kind |-> "None", idx |-> 0]
ColInt(i) == [kind |-> "int", idx |-> i]
ColStr == [kind |-> "str", idx |-> 0]
ColExit == [kind |-> "SystemExit", idx |-> 0]

\* header.index(column)
IndexOf(header, tok) ==
    (CHOOSE i \in 1..Len(header) :
        header[i] = tok /\ \A m \in 1..(i - 1) : header[m] # tok) - 1

get_header_index(header, tok) ==
    IF ~Truthy(tok) THEN (IF tok = NoneTok THEN ColNone ELSE ColStr)
    ELSE IF IsIntLiteral(tok)
         THEN IF IntOf(tok) > Len(header) THEN ColExit
              ELSE ColInt(IntOf(tok) - 1)
         ELSE IF \A i \in 1..Len(header) : header[i] # tok
              THEN ColExit
              ELSE ColInt(IndexOf(header, tok))

\* ------------------------------------------------------------------ inputs
\* The first line of the input file.
HeaderLine == <<"h", "|", "k">>

\* The data lines the input file may hold: two-field rows that share a first
\* field (A) or a second field (1), a row that carries the header's second
\* title as a value, a one-field row, a copy of the header line, a blank line.
DataLines == { <<"A", "|", "1">>, <<"A", "|", "k">>, <<"B", "|", "1">>,
               <<"X">>, HeaderLine, <<>> }

\* The values of the -c option.
ColumnTokens == { NoneTok, <<>>, <<"0">>, <<"0", "0">>, <<"-", "1">>, <<"1">>,
                  <<"2">>, <<"3">>, <<"k">>, <<"z">> }

\* The values of the -d option ("" when it is not given).
DelimiterArgs == { "", COMMA }

\* The values of --dump-index-errors ("" when it is not given).
ErrorsNameArgs == { "", "err.csv" }

\* name + '_CLEANED' + ext (no -o option is given).
output_name == "in_CLEANED.csv"

Arguments == [ column : ColumnTokens,
               invert : BOOLEAN,
               consider_index_errors : BOOLEAN,
               delimiter : DelimiterArgs,
               output_errors_name : ErrorsNameArgs ]

\* ------------------------------------------------------------------- state
VARIABLES
    pc,                 \* where the run is
    args,               \* the arguments of clean_duplicates
    input_file,         \* the lines of the input file the run has met so far
    line_num,           \* file_reader.line_num
    delimiter,          \* the delimiter in use
    output_errors_name, \* the name of the error-dump file in use
    header,             \* the header row
    column,             \* the resolved column
    output_open,        \* the primary output file has been opened for writing
    errors_open,        \* the error-dump file has been opened for writing
    output_rows,        \* the rows handed to file_writer.writerow
    errors_rows,        \* the rows handed to error_writer.writerow
    set_values,         \* the keys seen
    int_errors,         \* the count of IndexErrors
    written,            \* history: the line numbers of the rows in output_rows
    summary,            \* the figures printed at the end
    sniff_line          \* the header line handed to get_file_delimiter alone

vars == << pc, args, input_file, line_num, delimiter, output_errors_name,
           header, column, output_open, errors_open, output_rows, errors_rows,
           set_values, int_errors, written, summary, sniff_line >>

NoSummary == [total |-> 0, invalid |-> 0, after |-> 0]

\* ---------------------------------------------------------------- one row
\* line[column] raises no IndexError (Python indexes from the end below 0).
InRange(line, idx) == (0 - Len(line)) <= idx /\ idx < Len(line)

\* line[column]
Item(line, idx) == IF idx >= 0 THEN line[idx + 1] ELSE line[Len(line) + idx + 1]

\* A slip: the column is not looked at.
KeyOf_WholeRow(line, col) == line

\* line[column] if column != None else tuple(line)
KeyOf(line, col) == IF col.kind = "None" THEN line ELSE Item(line, col.idx)

\* The evaluation of the key raises IndexError.
RaisesIndexError(line, col) == col.kind = "int" /\ ~InRange(line, col.idx)

\* The evaluation of the key raises TypeError (a str used as a list index).
RaisesTypeError(line, col) == col.kind = "str"

\* The test of lines 111-112 on the set before and after the add.
\* A slip: the invert flag is not looked at.
Selected_NoInvert(before, after, invert) ==
    Cardinality(after) # Cardinality(before)

\* A slip: the two tests are exchanged.
Selected_Flipped(before, after, invert) ==
    \/ (Cardinality(after) = Cardinality(before) /\ ~invert)
    \/ (Cardinality(after) # Cardinality(before) /\ invert)

Selected(before, after, invert) ==
    \/ (Cardinality(after) = Cardinality(before) /\ invert)
    \/ (Cardinality(after) # Cardinality(before) /\ ~invert)

\* A slip: no guard against a copy of the header.
NotHeader_Unguarded(line, hdr) == TRUE

\* if line != header

NotHeader(line, hdr) == line # hdr

\* A slip: the row is put before the rows written so far.
writerow_Prepend(rows, line) == <<line>> \o rows

\* writer.writerow(line): the row follows the rows written so far.
writerow(rows, line) == Append(rows, line)

\* The state the loop body works on.
LoopState(sv, ie, out, err, crashed) ==
    [set_values |-> sv, int_errors |-> ie, out |-> out, err |-> err,
     crashed |-> crashed]

\* A slip: the header goes before every row of the error dump.
OnIndexError_HeaderEveryTime(st, line, hdr, a, errs_name) ==
    LET n == st.int_errors + 1
    IN  LoopState(st.set_values, n,
                  IF a.consider_index_errors THEN writerow(st.out, line) ELSE st.out,
                  IF errs_name # output_name
                      THEN writerow(writerow(st.err, hdr), line)
                      ELSE st.err,
                  FALSE)

\* The except IndexError branch, lines 115-124.
OnIndexError(st, line, hdr, a, errs_name) ==
    LET n == st.int_errors + 1
    IN  LoopState(st.set_values, n,
                  IF a.consider_index_errors THEN writerow(st.out, line) ELSE st.out,
                  IF errs_name # output_name
                      THEN writerow(IF n = 1 THEN writerow(st.err, hdr) ELSE st.err,
                                    line)
                      ELSE st.err,
                  FALSE)

\* The body of the for loop, lines 105-124, on one row.
LoopBody(st, line, hdr, col, a, errs_name) ==
    IF ~NotHeader(line, hdr) THEN st
    ELSE IF RaisesTypeError(line, col)
         THEN [st EXCEPT !.crashed = TRUE]
    ELSE IF RaisesIndexError(line, col)
         THEN OnIndexError(st, line, hdr, a, errs_name)
    ELSE LET after == st.set_values \cup {KeyOf(line, col)}
         IN  LoopState(after, st.int_errors,
                       IF Selected(st.set_values, after, a.invert)
                           THEN writerow(st.out, line) ELSE st.out,
                       st.err, FALSE)

\* The figures of lines 126-128.
Summary(n, sv, ie, a) ==
    LET e == IF a.consider_index_errors THEN ie ELSE 0
    IN  [total |-> n,
         invalid |-> n - Cardinality(sv) - e - 1,
         after |-> Cardinality(sv) + e + 1]

\* ----------------------------------------------------------------- the run
Init ==
    /\ pc = "start"
    /\ args \in Arguments
    /\ input_file = <<HeaderLine>>
    /\ line_num = 0
    /\ delimiter = ""
    /\ output_errors_name = ""
    /\ header = <<>>
    /\ column = ColNone
    /\ output_open = FALSE
    /\ errors_open = FALSE
    /\ output_rows = <<>>
    /\ errors_rows = <<>>
    /\ set_values = {}
    /\ int_errors = 0
    /\ written = <<>>
    /\ summary = NoSummary
    /\ sniff_line = <<>>

\* Lines 67-87: the check of column '0', the delimiter, the output names.
Setup ==
    /\ pc = "start"
    /\ IF args.column = <<"0">>
       THEN /\ pc' = "abort"
            /\ UNCHANGED << delimiter, output_errors_name >>
       ELSE /\ pc' = "setup"
            /\ delimiter' = IF args.delimiter = ""
                               THEN get_file_delimiter(input_file[1])
                               ELSE args.delimiter
            /\ output_errors_name' = IF args.output_errors_name = ""
                                        THEN output_name
                                        ELSE args.output_errors_name
    /\ UNCHANGED << args, input_file, line_num, header, column, output_open,
                    errors_open, output_rows, errors_rows, set_values,
                    int_errors, written, summary, sniff_line >>

\* A slip: the output is opened, and the header written, before the column
\* is resolved.
ReadHeader_OpensFirst ==
    /\ pc = "setup"
    /\ line_num' = 1
    /\ header' = ReadRecord(input_file[1], delimiter)
    /\ column' = get_header_index(header', args.column)
    /\ output_open' = TRUE
    /\ output_rows' = <<header'>>
    /\ pc' = IF column' = ColExit THEN "abort" ELSE "header"
    /\ UNCHANGED << args, input_file, delimiter, output_errors_name,
                    errors_open, errors_rows, set_values,
                    int_errors, written, summary, sniff_line >>

\* Lines 89-92: the input is opened, the header read, the column resolved.
ReadHeader ==
    /\ pc = "setup"
    /\ line_num' = 1
    /\ header' = ReadRecord(input_file[1], delimiter)
    /\ column' = get_header_index(header', args.column)
    /\ pc' = IF column' = ColExit THEN "abort" ELSE "header"
    /\ UNCHANGED << args, input_file, delimiter, output_errors_name, output_open,
                    errors_open, output_rows, errors_rows, set_values,
                    int_errors, written, summary, sniff_line >>

\* Lines 94-96: the primary output is opened and the header written.
OpenOutput ==
    /\ pc = "header"
    /\ output_open' = TRUE
    /\ output_rows' = writerow(<<>>, header)
    /\ pc' = "output"
    /\ UNCHANGED << args, input_file, line_num, delimiter, output_errors_name,
                    header, column, errors_open, errors_rows, set_values,
                    int_errors, written, summary, sniff_line >>

\* Lines 98-99: the error-dump file is opened (under the name of the primary
\* output when no other name was given; nothing is then written through it).
OpenErrors ==
    /\ pc = "output"
    /\ errors_open' = TRUE
    /\ errors_rows' = <<>>
    /\ pc' = "loop"
    /\ UNCHANGED << args, input_file, line_num, delimiter, output_errors_name,
                    header, column, output_open, output_rows, set_values,
                    int_errors, written, summary, sniff_line >>

\* Lines 101-124: the reader yields one more row and the loop body runs.
ReadRow ==
    /\ pc = "loop"
    /\ line_num < MaxRows + 1
    /\ \E text \in DataLines :
          LET line == ReadRecord(text, delimiter)
              st == LoopBody(LoopState(set_values, int_errors, output_rows,
                                       errors_rows, FALSE),
                             line, header, column, args, output_errors_name)
          IN  /\ input_file' = Append(input_file, text)
              /\ line_num' = line_num + 1
              /\ set_values' = st.set_values
              /\ int_errors' = st.int_errors
              /\ output_rows' = st.out
              /\ errors_rows' = st.err
              /\ written' = IF Len(st.out) > Len(output_rows)
                               THEN Append(written, line_num + 1)
                               ELSE written
              /\ pc' = IF st.crashed THEN "crash" ELSE "loop"
    /\ UNCHANGED << args, delimiter, output_errors_name, header, column,
                    output_open, errors_open, summary, sniff_line >>

\* Lines 126-128: the reader is exhausted and the summary printed.
Finish ==
    /\ pc = "loop"
    /\ summary' = Summary(line_num, set_values, int_errors, args)
    /\ pc' = "done"
    /\ UNCHANGED << args, input_file, line_num, delimiter, output_errors_name,
                    header, column, output_open, errors_open, output_rows,
                    errors_rows, set_values, int_errors, written, sniff_line >>

Next == Setup \/ ReadHeader \/ OpenOutput \/ OpenErrors \/ ReadRow \/ Finish

Spec == Init /\ [][Next]_vars


\* ------------------------------------------------- the run as one function
RECURSIVE Loop(_, _, _, _, _, _, _, _)
\* The for loop over the lines i.. of a file; a TypeError ends it.
Loop(st, file, i, d, hdr, col, a, errs_name) ==
    IF i > Len(file) \/ st.crashed THEN st
    ELSE Loop(LoopBody(st, ReadRecord(file[i], d), hdr, col, a, errs_name),
              file, i + 1, d, hdr, col, a, errs_name)

\* clean_duplicates on a file (its lines) that holds a header line: how the
\* run ends and the lines of the primary output file.
clean_duplicates(file, a) ==
    IF a.column = <<"0">> THEN [end |-> "abort", output |-> <<>>]
    ELSE LET d == IF a.delimiter = "" THEN get_file_delimiter(file[1])
                  ELSE a.delimiter
             errs_name == IF a.output_errors_name = "" THEN output_name
                          ELSE a.output_errors_name
             hdr == ReadRecord(file[1], d)
             col == get_header_index(hdr, a.column)
             st == Loop(LoopState({}, 0, writerow(<<>>, hdr), <<>>, FALSE),
                        file, 2, d, hdr, col, a, errs_name)
         IN  IF col = ColExit THEN [end |-> "abort", output |-> <<>>]
             ELSE [end |-> IF st.crashed THEN "crash" ELSE "done",
                   output |-> [k \in 1..Len(st.out) |-> WriteRecord(st.out[k], d)]]

\* ------------------------------------------- get_file_delimiter on its own
SniffChars == {"|", TAB, ";", COMMA, BSL, "t", "a"}

SniffLines == UNION { [1..n -> SniffChars] : n \in 0..MaxHdrLen }

SniffInit ==
    /\ pc = "sniff"
    /\ sniff_line \in SniffLines
    /\ args = [column |-> NoneTok, invert |-> FALSE,
               consider_index_errors |-> FALSE, delimiter |-> "",
               output_errors_name |-> ""]
    /\ input_file = <<sniff_line>>
    /\ line_num = 0
    /\ delimiter = ""
    /\ output_errors_name = ""
    /\ header = <<>>
    /\ column = ColNone
    /\ output_open = FALSE
    /\ errors_open = FALSE
    /\ output_rows = <<>>
    /\ errors_rows = <<>>
    /\ set_values = {}
    /\ int_errors = 0
    /\ written = <<>>
    /\ summary = NoSummary

\* Line 82: the delimiter is taken from the first line of the file.
Sniff ==
    /\ pc = "sniff"
    /\ delimiter' = get_file_delimiter(sniff_line)
    /\ pc' = "sniffed"
    /\ UNCHANGED << args, input_file, line_num, output_errors_name, header,
                    column, output_open, errors_open, output_rows, errors_rows,
                    set_values, int_errors, written, summary, sniff_line >>

SniffNext == Sniff

SniffSpec == SniffInit /\ [][SniffNext]_vars

\* ================================================================== claims
\* The rows of the input file, as the claims speak of them.
InLoop == pc \in {"loop", "done", "crash"}

\* The row on line i of the input file (line 1 is the header).
Row(i) == ReadRecord(input_file[i], delimiter)

\* The data rows read so far are on lines 2..line_num.
DataLineNums == 2..line_num

\* The row on line i has a Key: no column is selected, or the selected field
\* exists in the row.
HasKey(i) ==
    \/ column.kind = "None"
    \/ /\ column.kind = "int"
       /\ (0 - Len(Row(i))) <= column.idx
       /\ column.idx < Len(Row(i))

\* The Key of the row on line i: the whole row, or the selected field.
Key(i) ==
    IF column.kind = "None" THEN Row(i)
    ELSE IF column.idx >= 0 THEN Row(i)[column.idx + 1]
    ELSE Row(i)[Len(Row(i)) + column.idx + 1]

\* The row on line i raises a field-index error.
IsIndexErrorRow(i) == Row(i) # header /\ column.kind = "int" /\ ~HasKey(i)

IsWritten(i) == \E k \in 1..Len(written) : written[k] = i

\* The history of written line numbers is the primary output: the header,
\* then the rows of those lines, in increasing line order.
WrittenIsOutput ==
    /\ Len(output_rows) = Len(written) + 1
    /\ output_rows[1] = header
    /\ \A k \in 1..Len(written) :
          /\ written[k] \in DataLineNums
          /\ output_rows[k + 1] = Row(written[k])
          /\ \A m \in 1..(k - 1) : written[m] < written[k]

\* C1 as stated: in normal mode every data row written to the primary output
\* has a Key and is the first data row of the file with that Key, every later
\* row with that Key is not written, and no two written rows share a Key.
C1_Original ==
    (InLoop /\ ~args.invert) =>
        /\ WrittenIsOutput
        /\ \A i \in DataLineNums :
              IsWritten(i) =>
                  /\ HasKey(i)
                  /\ \A j \in 2..(i - 1) : HasKey(j) => Key(j) # Key(i)
        /\ \A i \in DataLineNums :
              (HasKey(i) /\ \E j \in 2..(i - 1) : HasKey(j) /\ Key(j) = Key(i))
                  => ~IsWritten(i)

\* C1 amended: in normal mode every data row written to the primary output
\* is either a row that raised a field-index error (written only when
\* consider_index_errors is set) or the first row with its Key among the
\* data rows that are not identical to the header; every later row with
\* that Key is not written; no two written rows that have a Key share it.
C1_FirstOccurrence ==
    (InLoop /\ ~args.invert) =>
        /\ WrittenIsOutput
        /\ \A i \in DataLineNums :
              IsWritten(i) =>
                  \/ IsIndexErrorRow(i) /\ args.consider_index_errors
                  \/ /\ HasKey(i)
                     /\ Row(i) # header
                     /\ \A j \in 2..(i - 1) :
                           (HasKey(j) /\ Row(j) # header) => Key(j) # Key(i)
        /\ \A i \in DataLineNums :
              (HasKey(i) /\ \E j \in 2..(i - 1) :
                                HasKey(j) /\ Row(j) # header /\ Key(j) = Key(i))
                  => ~IsWritten(i)
        /\ \A i, j \in DataLineNums :
              (i # j /\ IsWritten(i) /\ IsWritten(j) /\ HasKey(i) /\ HasKey(j))
                  => Key(i) # Key(j)

\* A normal-mode run has ended with a first occurrence written, a later row
\* of the same Key suppressed, and an index-error row written.
C1_Witness ==
    /\ pc = "done" /\ ~args.invert
    /\ \E i, j \in DataLineNums :
          /\ i < j /\ HasKey(i) /\ HasKey(j) /\ Key(i) = Key(j)
          /\ Row(i) # header
          /\ IsWritten(i) /\ ~IsWritten(j)
    /\ \E i \in DataLineNums : IsIndexErrorRow(i) /\ IsWritten(i)

\* C2 as stated: in invert mode, of the data rows that carry a Key, the first
\* with that Key is absent from the primary output and every later one is
\* present (so a row whose Key occurs once is absent).
C2_Original ==
    (InLoop /\ args.invert) =>
        /\ WrittenIsOutput
        /\ \A i \in DataLineNums :
              HasKey(i) =>
                  (IsWritten(i) <=>
                      \E j \in 2..(i - 1) : HasKey(j) /\ Key(j) = Key(i))

\* C2 amended: in invert mode, of the data rows that are not identical to the
\* header and carry a Key, the first with that Key is absent from the
\* primary output and every later one is present; a row identical to the
\* header is absent.
C2_RepeatsOnly ==
    (InLoop /\ args.invert) =>
        /\ WrittenIsOutput
        /\ \A i \in DataLineNums :
              (HasKey(i) /\ Row(i) # header) =>
                  (IsWritten(i) <=>
                      \E j \in 2..(i - 1) :
                          HasKey(j) /\ Row(j) # header /\ Key(j) = Key(i))
        /\ \A i \in DataLineNums : Row(i) = header => ~IsWritten(i)

\* An invert run has ended with a Key carried by three rows, the first
\* absent and both later ones present, and a Key carried once, absent.
C2_Witness ==
    /\ pc = "done" /\ args.invert
    /\ \E i, j, k \in DataLineNums :
          /\ i < j /\ j < k
          /\ HasKey(i) /\ HasKey(j) /\ HasKey(k)
          /\ Row(i) # header
          /\ Key(i) = Key(j) /\ Key(j) = Key(k)
          /\ ~IsWritten(i) /\ IsWritten(j) /\ IsWritten(k)


\* The lines of the primary output file.
OutputFile == [k \in 1..Len(output_rows) |-> WriteRecord(output_rows[k], delimiter)]

\* The run in steps ends as the function clean_duplicates says.
StepsAreFunction ==
    pc \in {"done", "crash", "abort"} =>
        /\ clean_duplicates(input_file, args).end = pc
        /\ clean_duplicates(input_file, args).output = OutputFile

RECURSIVE IsSubseq(_, _)
\* s is t with some of its elements left out.
IsSubseq(s, t) ==
    IF s = <<>> THEN TRUE
    ELSE IF t = <<>> THEN FALSE
    ELSE IF Head(s) = Head(t) THEN IsSubseq(Tail(s), Tail(t))
    ELSE IsSubseq(s, Tail(t))

\* The data rows read so far, in file order.
DataRows == [i \in 1..(line_num - 1) |-> Row(i + 1)]

C5_Original ==
    (pc \notin {"start", "setup"} /\ IsIntLiteral(args.column)) =>
        LET v == IntOf(args.column)
        IN  IF pc = "abort"
            THEN v = 0 \/ (line_num = 1 /\ v > Len(header))
            ELSE /\ v # 0
                 /\ v <= Len(header)
                 /\ column = ColInt(v - 1)
                 /\ 0 <= column.idx
                 /\ column.idx <= Len(header) - 1

\* The header row the run will read.
HeaderOfInput ==
    ReadRecord(input_file[1],
               IF args.delimiter = "" THEN get_file_delimiter(input_file[1])
               ELSE args.delimiter)

\* The column selector is the token 0, an ordinal beyond the header, or a
\* title that is not in the header.
ConfigurationError ==
    \/ args.column = <<"0">>
    \/ IsIntLiteral(args.column) /\ IntOf(args.column) > Len(HeaderOfInput)
    \/ /\ args.column # NoneTok /\ args.column # <<>>
       /\ ~IsIntLiteral(args.column)
       /\ \A i \in 1..Len(HeaderOfInput) : HeaderOfInput[i] # args.column

C7_Original ==
    pc = "done" =>
        /\ summary.after = Len(output_rows)
        /\ summary.invalid = line_num - Len(output_rows)

\* C8 as stated: get_file_delimiter returns the first of | tab ; , that
\* occurs in the header line, and the newline when none occurs.
Priority == <<"|", TAB, ";", COMMA>>

Occurs(c, line) == \E i \in 1..Len(line) : line[i] = c

ClaimedDelimiter(line) ==
    IF \E k \in 1..Len(Priority) : Occurs(Priority[k], line)
    THEN Priority[CHOOSE k \in 1..Len(Priority) :
                      /\ Occurs(Priority[k], line)
                      /\ \A m \in 1..(k - 1) : ~Occurs(Priority[m], line)]
    ELSE NL

C8_Original == pc = "sniffed" => delimiter = ClaimedDelimiter(sniff_line)

RECURSIVE IndexErrorRows(_)
\* The rows of lines 2..n that raised a field-index error, in file order.
IndexErrorRows(n) ==
    IF n < 2 THEN <<>>
    ELSE IF IsIndexErrorRow(n) THEN Append(IndexErrorRows(n - 1), Row(n))
    ELSE IndexErrorRows(n - 1)

\* The step reads a row that raises a field-index error.
IndexErrorStep ==
    /\ pc = "loop"
    /\ line_num' = line_num + 1
    /\ ReadRecord(input_file'[line_num'], delimiter) # header
    /\ column.kind = "int"
    /\ LET r == ReadRecord(input_file'[line_num'], delimiter)
       IN  ~((0 - Len(r)) <= column.idx /\ column.idx < Len(r))

C9_State ==
    InLoop =>
        /\ WrittenIsOutput
        /\ int_errors = Cardinality({i \in DataLineNums : IsIndexErrorRow(i)})
        /\ \A i \in DataLineNums :
              IsIndexErrorRow(i) => (IsWritten(i) <=> args.consider_index_errors)
        /\ set_values \subseteq {Key(i) : i \in {j \in DataLineNums : HasKey(j)}}
        /\ pc = "crash" => column.kind = "str"
        /\ errors_rows =
              IF output_errors_name # output_name /\ IndexErrorRows(line_num) # <<>>
              THEN <<header>> \o IndexErrorRows(line_num)
              ELSE <<>>

C9_Step ==
    IndexErrorStep =>
        /\ set_values' = set_values
        /\ int_errors' = int_errors + 1
        /\ output_rows' =
              IF args.consider_index_errors
              THEN Append(output_rows, ReadRecord(input_file'[line_num'], delimiter))
              ELSE output_rows
        /\ pc' = "loop"

\* C9: a row whose selected field is out of range leaves the set of keys as
\* it was, adds one to the error count, is written to the primary output
\* iff consider_index_errors is set, and does not end the run; the error
\* dump, when its name differs from the primary output's, is empty if no
\* such row was read and else holds the header once and then those rows in
\* input order; with no distinct name nothing goes through error_writer.
C9_IndexErrors == [](C9_State) /\ [][C9_Step]_vars

\* A run has ended with two index-error rows dumped after the header, a row
\* with a Key read after the first of them.
C9_Witness ==
    /\ pc = "done"
    /\ output_errors_name # output_name
    /\ int_errors = 2
    /\ Len(errors_rows) = 3
    /\ \E i, j \in DataLineNums : i < j /\ IsIndexErrorRow(i) /\ HasKey(j)
                                     /\ Row(j) # header /\ IsWritten(j)

\* The step reads a row identical to the header.
HeaderCopyStep ==
    /\ pc = "loop"
    /\ line_num' = line_num + 1
    /\ ReadRecord(input_file'[line_num'], delimiter) = header

C10_State ==
    InLoop =>
        /\ WrittenIsOutput
        /\ \A k \in 2..Len(output_rows) : output_rows[k] # header
        /\ \A k \in 2..Len(errors_rows) : errors_rows[k] # header
        /\ \A i \in DataLineNums : Row(i) = header => ~IsWritten(i)
        /\ set_values = {Key(i) : i \in {j \in DataLineNums :
                                            HasKey(j) /\ Row(j) # header}}
        /\ int_errors = Cardinality({i \in DataLineNums :
                                        Row(i) # header /\ column.kind = "int"
                                        /\ ~HasKey(i)})

C10_Step ==
    HeaderCopyStep =>
        /\ UNCHANGED << output_rows, errors_rows, set_values, int_errors >>
        /\ pc' = "loop"

====
